---- MODULE Spec2Model ----
(***************************************************************************)
(* Structured notes tracker: the barrier / status engine.                  *)
(*                                                                         *)
(* The model covers barrier_checker.py (knock-out, knock-in and conversion *)
(* checks and the check_all_barriers pass), status_calculator.py (the      *)
(* date-based status engine) and the "Refresh All" handler of app_new.py.  *)
(*                                                                         *)
(* Conventions.                                                            *)
(*  - Prices are naturals; 0 stands for a missing price (None or 0, both   *)
(*    falsy in Python).                                                    *)
(*  - A stored date is a record [k, d]: k is how the value is represented  *)
(*    ("iso" = 'YYYY-MM-DD' string, "isotime" = 'YYYY-MM-DD HH:MM:SS'       *)
(*    string, "date" = datetime.date object as PostgreSQL returns it,      *)
(*    "bad" = unparseable string, "none" = NULL) and d is the day number.  *)
(*  - A check returns [triggered, raised]: raised models an exception      *)
(*    escaping the function.                                               *)
(***************************************************************************)
EXTENDS Integers, Sequences, FiniteSets, TLC

\* ------------------------------------------------------------------ bounds
MaxPrice == 2
MaxUnd == 2
MaxDay == 3
NumNotes == 1
MaxClose == 3
DaysPerMonth == 2
MaxDates == 4

\* --------------------------------------------------------------- constants
Statuses == {"Not Observed Yet", "Alive", "Knocked Out", "Knocked In",
             "Converted", "Ended", "Unknown"}
ProductTypes == {"FCN", "WOFCN", "Phoenix", "BEN"}
FcnFamily == {"FCN", "WOFCN"}
KiTypes == {"Daily", "EKI"}
Tickers == <<"A", "B", "C", "D">>
NoDate == -1
MaxPeriod == 6
FourYearsInDays == 1461
MaxWorkers == 5
StoredClose == MaxClose - 1

Days == 0..MaxDay
Prices == 0..MaxPrice

\* ------------------------------------------------------------ date parsing
\* status_calculator.parse_date: None -> None, date -> itself, string in
\* either accepted format -> date, anything else -> None.
parse_date(v) ==
    IF v.k \in {"iso", "isotime", "date"} THEN v.d ELSE NoDate

\* datetime.strptime(value, '%Y-%m-%d').date(): succeeds only on a string in
\* exactly that format; a date object raises TypeError, other strings raise
\* ValueError, None raises TypeError.
strptime_ok(v) == v.k = "iso"

strptime_day(v) == v.d

\* ---------------------------------------------------------- status engine
calculate_note_status_ko_after_ki(note, day) ==
    LET obs_start == parse_date(note.observation_start_date)
        final_val == parse_date(note.final_valuation_date)
    IN  IF obs_start = NoDate \/ final_val = NoDate THEN "Unknown"
        ELSE IF day < obs_start THEN "Not Observed Yet"
        ELSE IF day > final_val THEN "Ended"
        ELSE IF note.ki_event_occurred = 1 THEN "Knocked In"
        ELSE IF note.ko_event_occurred = 1 THEN "Knocked Out"
        ELSE "Alive"

calculate_note_status_any_event(note, day) ==
    LET obs_start == parse_date(note.observation_start_date)
        final_val == parse_date(note.final_valuation_date)
    IN  IF obs_start = NoDate \/ final_val = NoDate THEN "Unknown"
        ELSE IF day < obs_start THEN "Not Observed Yet"
        ELSE IF day > final_val THEN "Ended"
        ELSE IF note.ko_event_occurred = 1 \/ note.ki_event_occurred = 1
             THEN "Knocked Out"
        ELSE "Alive"

calculate_note_status(note, day) ==
    LET obs_start == parse_date(note.observation_start_date)
        final_val == parse_date(note.final_valuation_date)
    IN  IF obs_start = NoDate \/ final_val = NoDate THEN "Unknown"
        ELSE IF day < obs_start THEN "Not Observed Yet"
        ELSE IF day > final_val THEN "Ended"
        ELSE IF note.ko_event_occurred = 1 THEN "Knocked Out"
        ELSE IF note.ki_event_occurred = 1 THEN "Knocked In"
        ELSE "Alive"

\* ------------------------------------------------------ worst performer
\* The loop shared by every "worst performing share" search:
\*     worst_performance = inf; worst_underlying = None
\*     for u in us: performance = u[last] / u[ref]
\*                  if performance < worst_performance: keep u
\* Ratios are compared by cross-multiplication; the first of equal ratios
\* is kept.  ref is the name of the reference field.
RECURSIVE WorstLoop(_, _, _, _)
WorstLoop(us, ref, i, worst) ==
    IF i > Len(us) THEN worst
    ELSE IF worst = 0
              \/ us[i].last_close_price * us[worst][ref]
                   < us[worst].last_close_price * us[i][ref]
         THEN WorstLoop(us, ref, i + 1, i)
         ELSE WorstLoop(us, ref, i + 1, worst)

WorstIndex(us, ref) == WorstLoop(us, ref, 1, 0)

\* The division u[last] / u[ref] raises when ref is None or 0.
DivisionRaises(us, ref) == \E i \in 1..Len(us) : us[i][ref] = 0

NoTrigger == [triggered |-> FALSE, raised |-> FALSE]
Trigger == [triggered |-> TRUE, raised |-> FALSE]
Raise == [triggered |-> FALSE, raised |-> TRUE]

Observable_or_ended(note) ==
    note.current_status \in {"Alive", "Not Observed Yet", "Ended"}

Observable(note) == note.current_status \in {"Alive", "Not Observed Yet"}


HasPrice(u) == u.last_close_price # 0

\* ------------------------------------------------------ knock-out checks
check_ko_barrier_fcn_priced_only(note, us) ==
    LET underlyings_with_ko == SelectSeq(us, LAMBDA u : u.ko_price > 0)
        underlyings_with_prices == SelectSeq(underlyings_with_ko, HasPrice)
    IN  IF ~Observable(note) THEN NoTrigger
        ELSE IF underlyings_with_ko = <<>> THEN NoTrigger
        ELSE IF \A i \in 1..Len(underlyings_with_prices) :
                    underlyings_with_prices[i].last_close_price
                        >= underlyings_with_prices[i].ko_price
             THEN Trigger
             ELSE NoTrigger

check_ko_barrier_fcn(note, us) ==
    LET underlyings_with_ko == SelectSeq(us, LAMBDA u : u.ko_price > 0)
        underlyings_with_prices == SelectSeq(underlyings_with_ko, HasPrice)
    IN  IF ~Observable(note) THEN NoTrigger
        ELSE IF underlyings_with_ko = <<>> THEN NoTrigger
        ELSE IF Len(underlyings_with_prices) < Len(underlyings_with_ko)
             THEN NoTrigger
        ELSE IF \A i \in 1..Len(underlyings_with_prices) :
                    underlyings_with_prices[i].last_close_price
                        >= underlyings_with_prices[i].ko_price
             THEN Trigger
             ELSE NoTrigger

check_ko_barrier_phoenix(note, us) ==
    LET underlyings_with_prices ==
            SelectSeq(us, LAMBDA u : /\ u.last_close_price # 0
                                     /\ u.strike_price # 0
                                     /\ u.ko_price # 0)
        w == WorstIndex(underlyings_with_prices, "strike_price")
    IN  IF ~Observable(note) THEN NoTrigger
        ELSE IF underlyings_with_prices = <<>> THEN NoTrigger
        ELSE IF underlyings_with_prices[w].last_close_price
                    >= underlyings_with_prices[w].ko_price
             THEN Trigger
             ELSE NoTrigger

\* phoenix_logic.get_current_ko_barrier: the barrier of the first entry of
\* the step-down table whose month is the period, None (0) without one.
get_current_ko_barrier(ko_barriers, payment_period) ==
    LET hits == SelectSeq(ko_barriers, LAMBDA b : b.month = payment_period)
    IN  IF hits = <<>> THEN 0 ELSE hits[1].barrier

\* The calendar month a day number falls in.
MonthIndex(d) == d \div DaysPerMonth

\* excel_templates.calculate_current_payment_period: months elapsed since
\* the issue date plus one, clamped to 1..6; 1 when the issue date does not
\* parse.
calculate_current_payment_period(issue_date, day) ==
    IF ~strptime_ok(issue_date) THEN 1
    ELSE LET months_elapsed == MonthIndex(day) - MonthIndex(strptime_day(issue_date))
             low == IF months_elapsed + 1 > 1 THEN months_elapsed + 1 ELSE 1
         IN  IF low < MaxPeriod THEN low ELSE MaxPeriod

\* phoenix_logic.check_phoenix_autocall: the worst share by last_close /
\* spot against the step-down barrier of the current period.
check_phoenix_autocall(note, us, ko_barriers, current_period) ==
    LET ko_barrier == get_current_ko_barrier(ko_barriers, current_period)
        underlyings_with_prices ==
            SelectSeq(us, LAMBDA u : /\ u.last_close_price # 0
                                     /\ u.spot_price # 0)
        w == WorstIndex(underlyings_with_prices, "spot_price")
    IN  IF ko_barrier = 0 THEN NoTrigger
        ELSE IF underlyings_with_prices = <<>> THEN NoTrigger
        ELSE IF underlyings_with_prices[w].last_close_price >= ko_barrier
             THEN Trigger
             ELSE NoTrigger

check_ko_barrier(note, us) ==
    IF note.type_of_structured_product = "Phoenix"
    THEN check_ko_barrier_phoenix(note, us)
    ELSE check_ko_barrier_fcn(note, us)

\* ------------------------------------------------------ knock-in checks
\* The EKI gate of check_ki_barrier_fcn / check_ki_barrier_phoenix:
\*     try:    final_val = strptime(...); if today != final_val: return
\*     except: pass
\* TRUE when the gate returns "not today"; a value strptime rejects falls
\* through to the price comparison.
FinalDateGateCloses(note, day) ==
    /\ strptime_ok(note.final_valuation_date)
    /\ day # strptime_day(note.final_valuation_date)

check_ki_barrier_fcn_strict(note, us, day) ==
    LET underlyings_with_ki == SelectSeq(us, LAMBDA u : u.ki_price > 0)
        underlyings_with_prices == SelectSeq(underlyings_with_ki, HasPrice)
    IN  IF ~Observable(note) THEN NoTrigger
        ELSE IF note.ki_type = "EKI" /\ FinalDateGateCloses(note, day)
             THEN NoTrigger
        ELSE IF underlyings_with_ki = <<>> THEN NoTrigger
        ELSE IF Len(underlyings_with_prices) < Len(underlyings_with_ki)
             THEN NoTrigger
        ELSE IF \E i \in 1..Len(underlyings_with_prices) :
                    underlyings_with_prices[i].last_close_price
                        < underlyings_with_prices[i].ki_price
             THEN Trigger
             ELSE NoTrigger

check_ki_barrier_fcn(note, us, day) ==
    LET underlyings_with_ki == SelectSeq(us, LAMBDA u : u.ki_price > 0)
        underlyings_with_prices == SelectSeq(underlyings_with_ki, HasPrice)
    IN  IF ~Observable(note) THEN NoTrigger
        ELSE IF note.ki_type = "EKI" /\ FinalDateGateCloses(note, day)
             THEN NoTrigger
        ELSE IF underlyings_with_ki = <<>> THEN NoTrigger
        ELSE IF Len(underlyings_with_prices) < Len(underlyings_with_ki)
             THEN NoTrigger
        ELSE IF \E i \in 1..Len(underlyings_with_prices) :
                    underlyings_with_prices[i].last_close_price
                        <= underlyings_with_prices[i].ki_price
             THEN Trigger
             ELSE NoTrigger

check_ki_barrier_phoenix(note, us, day) ==
    LET underlyings_with_prices ==
            SelectSeq(us, LAMBDA u : /\ u.last_close_price # 0
                                     /\ u.strike_price # 0
                                     /\ u.ki_price # 0)
        w == WorstIndex(underlyings_with_prices, "strike_price")
    IN  IF ~Observable(note) THEN NoTrigger
        ELSE IF FinalDateGateCloses(note, day) THEN NoTrigger
        ELSE IF underlyings_with_prices = <<>> THEN NoTrigger
        ELSE IF underlyings_with_prices[w].last_close_price
                    <= underlyings_with_prices[w].ki_price
             THEN Trigger
             ELSE NoTrigger

check_ki_barrier_ben_at_or_below(note, us, day) ==
    LET underlyings_with_prices ==
            SelectSeq(us, LAMBDA u : /\ u.last_close_price # 0
                                     /\ u.ki_price # 0)
    IN  IF ~Observable(note) THEN NoTrigger
        ELSE IF underlyings_with_prices = <<>> THEN NoTrigger
        ELSE IF \E i \in 1..Len(underlyings_with_prices) :
                    underlyings_with_prices[i].last_close_price
                        <= underlyings_with_prices[i].ki_price
             THEN Trigger
             ELSE NoTrigger

check_ki_barrier_ben(note, us, day) ==
    LET underlyings_with_prices ==
            SelectSeq(us, LAMBDA u : /\ u.last_close_price # 0
                                     /\ u.ki_price # 0)
    IN  IF ~Observable(note) THEN NoTrigger
        ELSE IF underlyings_with_prices = <<>> THEN NoTrigger
        ELSE IF \E i \in 1..Len(underlyings_with_prices) :
                    underlyings_with_prices[i].last_close_price
                        < underlyings_with_prices[i].ki_price
             THEN Trigger
             ELSE NoTrigger

check_ki_barrier(note, us, day) ==
    IF note.type_of_structured_product = "Phoenix"
    THEN check_ki_barrier_phoenix(note, us, day)
    ELSE IF note.type_of_structured_product = "BEN"
    THEN check_ki_barrier_ben(note, us, day)
    ELSE check_ki_barrier_fcn(note, us, day)

\* ----------------------------------------------------- conversion checks
\* The date gate of the three conversion checks:
\*     try:    final_val = strptime(...); if today != final_val: return False
\*     except: return False
OnFinalValuationDate(note, day) ==
    /\ strptime_ok(note.final_valuation_date)
    /\ day = strptime_day(note.final_valuation_date)

check_conversion_fcn_any_day(note, us, day) ==
    LET underlyings_with_prices ==
            SelectSeq(us, LAMBDA u : /\ u.last_close_price # 0
                                     /\ u.strike_price # 0)
        w == WorstIndex(underlyings_with_prices, "strike_price")
    IN  IF note.current_status # "Knocked In" THEN NoTrigger
        ELSE IF underlyings_with_prices = <<>> THEN NoTrigger
        ELSE IF underlyings_with_prices[w].last_close_price
                    < underlyings_with_prices[w].strike_price
             THEN Trigger
             ELSE NoTrigger

check_conversion_fcn(note, us, day) ==
    LET underlyings_with_prices ==
            SelectSeq(us, LAMBDA u : /\ u.last_close_price # 0
                                     /\ u.strike_price # 0)
        w == WorstIndex(underlyings_with_prices, "strike_price")
    IN  IF note.current_status # "Knocked In" THEN NoTrigger
        ELSE IF ~OnFinalValuationDate(note, day) THEN NoTrigger
        ELSE IF underlyings_with_prices = <<>> THEN NoTrigger
        ELSE IF underlyings_with_prices[w].last_close_price
                    < underlyings_with_prices[w].strike_price
             THEN Trigger
             ELSE NoTrigger

check_conversion_phoenix_by_strike(note, us, day) ==
    check_conversion_fcn(note, us, day)

check_conversion_phoenix(note, us, day) ==
    LET underlyings_with_prices ==
            SelectSeq(us, LAMBDA u : /\ u.last_close_price # 0
                                     /\ u.strike_price # 0)
        w == WorstIndex(underlyings_with_prices, "spot_price")
    IN  IF note.current_status # "Knocked In" THEN NoTrigger
        ELSE IF ~OnFinalValuationDate(note, day) THEN NoTrigger
        ELSE IF underlyings_with_prices = <<>> THEN NoTrigger
        ELSE IF DivisionRaises(underlyings_with_prices, "spot_price")
             THEN Raise
        ELSE IF underlyings_with_prices[w].last_close_price
                    < underlyings_with_prices[w].strike_price
             THEN Trigger
             ELSE NoTrigger

check_conversion_ben(note, us, day) ==
    LET underlyings_with_prices ==
            SelectSeq(us, LAMBDA u : /\ u.last_close_price # 0
                                     /\ u.strike_price # 0
                                     /\ u.spot_price # 0)
        w == WorstIndex(underlyings_with_prices, "spot_price")
    IN  IF note.current_status # "Knocked In" THEN NoTrigger
        ELSE IF ~OnFinalValuationDate(note, day) THEN NoTrigger
        ELSE IF underlyings_with_prices = <<>> THEN NoTrigger
        ELSE IF underlyings_with_prices[w].last_close_price
                    < underlyings_with_prices[w].strike_price
             THEN Trigger
             ELSE NoTrigger

check_conversion(note, us, day) ==
    IF note.type_of_structured_product = "Phoenix"
    THEN check_conversion_phoenix(note, us, day)
    ELSE IF note.type_of_structured_product = "BEN"
    THEN check_conversion_ben(note, us, day)
    ELSE check_conversion_fcn(note, us, day)


\* ----------------------------------------------------------------- coupons
\* coupon_per_annum is carried in percent and money is an exact fraction
\* [num, den] counted in hundredths, so notional * coupon_per_annum is
\* [notional * pct, 1].
\*
\* coupon_calculator.parse_coupon_payment_dates: the entries that parse in
\* one of the two accepted formats ('%Y-%m-%d', '%m/%d/%Y'), sorted.
parse_coupon_payment_dates(payment_dates) ==
    LET parsed == SelectSeq(payment_dates, LAMBDA v : v.k \in {"iso", "us"})
    IN  SortSeq([i \in 1..Len(parsed) |-> parsed[i].d], <)

\* coupon_calculator.calculate_expected_coupon:
\*     years = days_between / 365.25 + (days_between / (n - 1)) / 365.25
\*     expected_total = notional * coupon_per_annum * years       (n >= 2)
\*     expected_total = notional * coupon_per_annum               (n = 1)
calculate_expected_coupon(notional_amount, coupon_pct, payment_dates) ==
    LET dates == parse_coupon_payment_dates(payment_dates)
        num_payments == Len(dates)
        days_between == dates[num_payments] - dates[1]
    IN  IF notional_amount = 0 \/ coupon_pct = 0 THEN [num |-> 0, den |-> 1]
        ELSE IF num_payments = 0 THEN [num |-> 0, den |-> 1]
        ELSE IF num_payments >= 2
        THEN [num |-> notional_amount * coupon_pct * 4 * days_between
                         * num_payments,
              den |-> FourYearsInDays * (num_payments - 1)]
        ELSE [num |-> notional_amount * coupon_pct, den |-> 1]

\* coupon_calculator.calculate_accumulated_coupon:
\*     per_payment_amount = (notional * coupon_per_annum) / total_payments
\*     accumulated_amount = per_payment_amount * payments_made
calculate_accumulated_coupon(notional_amount, coupon_pct, payment_dates, as_of_date) ==
    LET dates == parse_coupon_payment_dates(payment_dates)
        total_payments == Len(dates)
        payments_made ==
            Cardinality({i \in 1..total_payments : dates[i] <= as_of_date})
    IN  IF notional_amount = 0 \/ coupon_pct = 0 \/ total_payments = 0
        THEN [amount |-> [num |-> 0, den |-> 1], payments_made |-> 0,
              total_payments |-> 0]
        ELSE [amount |-> [num |-> notional_amount * coupon_pct * payments_made,
                          den |-> total_payments],
              payments_made |-> payments_made,
              total_payments |-> total_payments]

\* =================================================================== state
VARIABLES
    notes,        \* table structured_notes: id -> row
    underlyings,  \* table note_underlyings: note id -> rows in sequence order
    today,        \* date.today() / CURRENT_DATE, a day number
    last_run,     \* what the handler of this step returned
    evaluated,    \* per note, the checks check_all_barriers evaluated in this step
    call,         \* the last direct call of a pure function: inputs and result
    ever_converted, \* history: the notes a pass has at some time marked Converted
    pool          \* update_all_prices in progress: its futures and its locals

vars == <<notes, underlyings, today, last_run, evaluated, call, ever_converted, pool>>

NoteIds == 1..NumNotes

NoRun == [op |-> "none", ko_count |-> 0, ki_count |-> 0, converted_count |-> 0,
          details |-> <<>>, updated_count |-> 0, raised |-> FALSE]
NoCall == [fn |-> "none"]
NothingEvaluated == [n \in NoteIds |-> <<>>]
NoPool == [phase |-> "idle"]

\* ----------------------------------------------- check_all_barriers, one note
\* The body of the for loop of check_all_barriers for one note: the row
\* after the iteration, the line appended to details ("none" when nothing
\* was appended), the checks that were called, and whether an exception
\* escaped.  failing = this note's UPDATE raises.
NoteOutcome_ki_after_ko(note, us, day, failing) ==
    LET conv == check_conversion(note, us, day)
        ko == check_ko_barrier(note, us)
        ki == check_ki_barrier(note, us, day)
    IN  IF conv.raised
        THEN [note |-> note, event |-> "none", evaluated |-> <<"conversion">>,
              raised |-> TRUE]
        ELSE IF conv.triggered
        THEN [note |-> IF failing THEN note
                       ELSE [note EXCEPT !.current_status = "Converted"],
              event |-> IF failing THEN "FAIL" ELSE "CONV",
              evaluated |-> <<"conversion">>, raised |-> FALSE]
        ELSE IF ~Observable(note)
        THEN [note |-> note, event |-> "none", evaluated |-> <<"conversion">>,
              raised |-> FALSE]
        ELSE IF ko.triggered /\ ki.triggered /\ ~failing
        THEN [note |-> [note EXCEPT !.current_status = "Knocked In",
                                    !.ko_event_occurred = 1,
                                    !.ko_event_date = day,
                                    !.ki_event_occurred = 1,
                                    !.ki_event_date = day],
              event |-> "KO",
              evaluated |-> <<"conversion", "knock-out", "knock-in">>,
              raised |-> FALSE]
        ELSE IF ko.triggered
        THEN [note |-> IF failing THEN note
                       ELSE [note EXCEPT !.current_status = "Knocked Out",
                                         !.ko_event_occurred = 1,
                                         !.ko_event_date = day],
              event |-> IF failing THEN "FAIL" ELSE "KO",
              evaluated |-> <<"conversion", "knock-out">>, raised |-> FALSE]
        ELSE IF ki.triggered
        THEN [note |-> IF failing THEN note
                       ELSE [note EXCEPT !.current_status = "Knocked In",
                                         !.ki_event_occurred = 1,
                                         !.ki_event_date = day],
              event |-> IF failing THEN "FAIL" ELSE "KI",
              evaluated |-> <<"conversion", "knock-out", "knock-in">>,
              raised |-> FALSE]
        ELSE [note |-> note, event |-> "none",
              evaluated |-> <<"conversion", "knock-out", "knock-in">>,
              raised |-> FALSE]

NoteOutcome(note, us, day, failing) ==
    LET conv == check_conversion(note, us, day)
        ko == check_ko_barrier(note, us)
        ki == check_ki_barrier(note, us, day)
    IN  IF conv.raised
        THEN [note |-> note, event |-> "none", evaluated |-> <<"conversion">>,
              raised |-> TRUE]
        ELSE IF conv.triggered
        THEN [note |-> IF failing THEN note
                       ELSE [note EXCEPT !.current_status = "Converted"],
              event |-> IF failing THEN "FAIL" ELSE "CONV",
              evaluated |-> <<"conversion">>, raised |-> FALSE]
        ELSE IF ~Observable(note)
        THEN [note |-> note, event |-> "none", evaluated |-> <<"conversion">>,
              raised |-> FALSE]
        ELSE IF ko.triggered
        THEN [note |-> IF failing THEN note
                       ELSE [note EXCEPT !.current_status = "Knocked Out",
                                         !.ko_event_occurred = 1,
                                         !.ko_event_date = day],
              event |-> IF failing THEN "FAIL" ELSE "KO",
              evaluated |-> <<"conversion", "knock-out">>, raised |-> FALSE]
        ELSE IF ki.triggered
        THEN [note |-> IF failing THEN note
                       ELSE [note EXCEPT !.current_status = "Knocked In",
                                         !.ki_event_occurred = 1,
                                         !.ki_event_date = day],
              event |-> IF failing THEN "FAIL" ELSE "KI",
              evaluated |-> <<"conversion", "knock-out", "knock-in">>,
              raised |-> FALSE]
        ELSE [note |-> note, event |-> "none",
              evaluated |-> <<"conversion", "knock-out", "knock-in">>,
              raised |-> FALSE]

\* ------------------------------------------------- check_all_barriers, loop
\* rows = the notes fetched by SELECT * at the start of the pass; order =
\* the order the database returned them in; fails = the notes whose UPDATE
\* raises.  An exception escaping a check ends the pass; the writes already
\* committed stay.
\* sticky = a failed statement leaves the connection unusable.  The except
\* branches record the failure and go on without a rollback: on PostgreSQL
\* the transaction stays aborted and every later statement raises, on
\* SQLite the connection keeps working.  The next note's SELECT of its
\* underlyings then raises (in its try and again in its except), which ends
\* the pass.
RECURSIVE BarrierLoop(_, _, _, _, _, _, _, _)
BarrierLoop(rows, unds, day, order, fails, sticky, i, acc) ==
    IF i > Len(order) \/ acc.raised THEN acc
    ELSE IF acc.broken THEN [acc EXCEPT !.raised = TRUE]
    ELSE LET n == order[i]
             out == NoteOutcome(rows[n], unds[n], day, n \in fails)
         IN  BarrierLoop(rows, unds, day, order, fails, sticky, i + 1,
                 [notes |-> [acc.notes EXCEPT ![n] = out.note],
                  ko_count |-> acc.ko_count + (IF out.event = "KO" THEN 1 ELSE 0),
                  ki_count |-> acc.ki_count + (IF out.event = "KI" THEN 1 ELSE 0),
                  converted_count |->
                      acc.converted_count + (IF out.event = "CONV" THEN 1 ELSE 0),
                  details |-> IF out.event = "none" THEN acc.details
                              ELSE Append(acc.details,
                                          [kind |-> out.event, id |-> n]),
                  evaluated |-> [acc.evaluated EXCEPT ![n] = out.evaluated],
                  broken |-> sticky /\ out.event = "FAIL",
                  raised |-> out.raised])

check_all_barriers(rows, unds, day, order, fails, sticky) ==
    BarrierLoop(rows, unds, day, order, fails, sticky, 1,
                [notes |-> rows, ko_count |-> 0, ki_count |-> 0,
                 converted_count |-> 0, details |-> <<>>,
                 evaluated |-> [n \in DOMAIN rows |-> <<>>],
                 broken |-> FALSE, raised |-> FALSE])

\* --------------------------------------------------------- status refresh
\* A status refresh that walks the lifecycle one step at a time: a note
\* still marked 'Not Observed Yet' whose observation has started becomes
\* 'Alive' first.
update_note_status_stepwise(rows, n, day) ==
    LET new_status == calculate_note_status(rows[n], day)
    IN  [rows EXCEPT ![n].current_status =
            IF rows[n].current_status = "Not Observed Yet"
                  /\ new_status \notin {"Not Observed Yet", "Unknown"}
            THEN "Alive"
            ELSE new_status]

\* A status refresh that also tidies the event columns of a note it marks
\* Ended.
update_note_status_clearing(rows, n, day) ==
    LET new_status == calculate_note_status(rows[n], day)
    IN  IF new_status = "Ended"
        THEN [rows EXCEPT ![n].current_status = new_status,
                          ![n].ki_event_occurred = 0,
                          ![n].ki_event_date = NoDate]
        ELSE [rows EXCEPT ![n].current_status = new_status]

\* update_note_status: recompute the status and write it, whatever the row
\* held before.
update_note_status(rows, n, day) ==
    [rows EXCEPT ![n].current_status = calculate_note_status(rows[n], day)]

RECURSIVE update_all_statuses(_, _, _)
update_all_statuses(rows, day, i) ==
    IF i > Len(rows) THEN rows
    ELSE update_all_statuses(update_note_status(rows, i, day), day, i + 1)


\* ------------------------------------------------------------- note edit
\* database.update_structured_note: the UPDATE rewrites the descriptive
\* columns of the row (here the product type, the two dates and ki_type)
\* and nothing else; the dates keep the representation the database gives
\* them.
update_structured_note_reinserting(row, note_data) ==
    [row EXCEPT !.type_of_structured_product = note_data.type_of_structured_product,
                !.observation_start_date.d = note_data.observation_start_date,
                !.final_valuation_date.d = note_data.final_valuation_date,
                !.ki_type = note_data.ki_type,
                !.current_status = "Not Observed Yet",
                !.ko_event_occurred = 0,
                !.ki_event_occurred = 0]

update_structured_note(row, note_data) ==
    [row EXCEPT !.type_of_structured_product = note_data.type_of_structured_product,
                !.observation_start_date.d = note_data.observation_start_date,
                !.final_valuation_date.d = note_data.final_valuation_date,
                !.ki_type = note_data.ki_type]


\* ============================================ direct calls of the checks
\* Input domains.
DateValues ==
    {[k |-> kind, d |-> d] : kind \in {"iso", "isotime", "date"}, d \in Days}
        \cup {[k |-> "bad", d |-> 0], [k |-> "none", d |-> 0]}

\* Stored final valuation dates on one fixed day, in every representation.
FinalDay == MaxDay - 1
FinalDateValues == {v \in DateValues : v.d = FinalDay \/ v.k \in {"bad", "none"}}

Row(type, kiType, obs, fin, status, ko, ki) ==
    [type_of_structured_product |-> type, ki_type |-> kiType,
     observation_start_date |-> obs, final_valuation_date |-> fin,
     current_status |-> status,
     ko_event_occurred |-> ko, ko_event_date |-> NoDate,
     ki_event_occurred |-> ki, ki_event_date |-> NoDate]

Underlying(ticker, spot, strike, ko, ki, last) ==
    [underlying_ticker |-> ticker, spot_price |-> spot, strike_price |-> strike,
     ko_price |-> ko, ki_price |-> ki, last_close_price |-> last]

\* Lists of len underlyings whose fields range over the given sets; the
\* tickers follow the position.
UnderlyingLists(len, spots, strikes, kos, kis, lasts) ==
    [1..len -> [underlying_ticker : {"A"}, spot_price : spots,
                strike_price : strikes, ko_price : kos, ki_price : kis,
                last_close_price : lasts]]

WithTickers(f) ==
    [i \in 1..Len(f) |-> [f[i] EXCEPT !.underlying_ticker = Tickers[i]]]

Idle ==
    /\ notes = <<>>
    /\ underlyings = <<>>
    /\ today = 0
    /\ last_run = NoRun
    /\ evaluated = NothingEvaluated
    /\ call = NoCall
    /\ ever_converted = {}
    /\ pool = NoPool

Called(fn, note, us, day, result) ==
    /\ call' = [fn |-> fn, note |-> note, us |-> us, day |-> day,
                result |-> result]
    /\ UNCHANGED <<notes, underlyings, today, last_run, evaluated, ever_converted, pool>>

\* ------------------------------------------------- calculate_note_status
CallStatus ==
    /\ call.fn = "none"
    /\ \E obs \in DateValues, fin \in DateValues, status \in Statuses,
       ko \in {0, 1}, ki \in {0, 1}, day \in Days :
        LET note == Row("FCN", "Daily", obs, fin, status, ko, ki)
        IN  Called("calculate_note_status", note, <<>>, day,
                   calculate_note_status(note, day))

SpecStatus == Idle /\ [][CallStatus]_vars

\* -------------------------------------------------------- check_conversion
\* A Knocked In note on its final valuation date, every price combination.
CallConversion ==
    /\ call.fn = "none"
    /\ \E type \in ProductTypes,
          len \in 1..MaxUnd :
       \E f \in UnderlyingLists(len, Prices, Prices, {0}, {0}, Prices) :
        LET note == Row(type, "Daily", [k |-> "iso", d |-> 0],
                        [k |-> "iso", d |-> FinalDay], "Knocked In", 0, 1)
            us == WithTickers(f)
        IN  Called("check_conversion", note, us, FinalDay,
                   check_conversion(note, us, FinalDay))

SpecConversion == Idle /\ [][CallConversion]_vars

\* Every status, day and representation of the final valuation date.
CallConversionAnyDay ==
    /\ call.fn = "none"
    /\ \E type \in ProductTypes, status \in Statuses,
          fin \in FinalDateValues, day \in Days,
          len \in 1..MaxUnd :
       \E f \in UnderlyingLists(len, {MaxPrice}, Prices, {0}, {0}, Prices) :
        LET note == Row(type, "Daily", [k |-> "iso", d |-> 0], fin, status, 0, 1)
            us == WithTickers(f)
        IN  Called("check_conversion", note, us, day,
                   check_conversion(note, us, day))

SpecConversionGate == Idle /\ [][CallConversionAnyDay]_vars

\* -------------------------------------------------------- check_ko_barrier
CallKnockOut ==
    /\ call.fn = "none"
    /\ \E type \in FcnFamily, status \in Statuses,
          len \in 1..MaxUnd :
       \E f \in UnderlyingLists(len, {MaxPrice}, {MaxPrice}, Prices, {0}, Prices) :
        LET note == Row(type, "Daily", [k |-> "iso", d |-> 0],
                        [k |-> "iso", d |-> FinalDay], status, 0, 0)
            us == WithTickers(f)
        IN  Called("check_ko_barrier", note, us, 0, check_ko_barrier(note, us))

SpecKnockOut == Idle /\ [][CallKnockOut]_vars

CallKnockOutPhoenix ==
    /\ call.fn = "none"
    /\ \E status \in Statuses,
          len \in 1..MaxUnd :
       \E f \in UnderlyingLists(len, Prices, Prices, Prices, {0}, Prices) :
        LET note == Row("Phoenix", "Daily", [k |-> "iso", d |-> 0],
                        [k |-> "iso", d |-> FinalDay], status, 0, 0)
            us == WithTickers(f)
        IN  Called("check_ko_barrier", note, us, 0, check_ko_barrier(note, us))

SpecKnockOutPhoenix == Idle /\ [][CallKnockOutPhoenix]_vars

\* The knock-out check of a Phoenix note that has a step-down table: the
\* table and the issue date travel with the call, the check is the one
\* check_all_barriers uses.
StepDownTables ==
    {<<[month |-> 1, barrier |-> b1], [month |-> 2, barrier |-> b2]>> :
        b1 \in 1..MaxPrice, b2 \in 1..MaxPrice}

CallKnockOutStepDown ==
    /\ call.fn = "none"
    /\ \E ko_barriers \in StepDownTables, day \in Days, len \in 1..MaxUnd :
       \E f \in UnderlyingLists(len, 1..MaxPrice, {MaxPrice}, Prices, {0}, Prices) :
        LET note == Row("Phoenix", "EKI", [k |-> "iso", d |-> 0],
                        [k |-> "iso", d |-> MaxDay], "Alive", 0, 0)
                      @@ [issue_date |-> [k |-> "iso", d |-> 0]]
            us == WithTickers(f)
        IN  /\ call' = [fn |-> "check_ko_barrier", note |-> note, us |-> us,
                        day |-> day, ko_barriers |-> ko_barriers,
                        result |-> check_ko_barrier(note, us)]
            /\ UNCHANGED <<notes, underlyings, today, last_run, evaluated, ever_converted, pool>>

SpecKnockOutStepDown == Idle /\ [][CallKnockOutStepDown]_vars

\* ------------------------------------------- calculate_accumulated_coupon
\* Schedules of 1..MaxDates payment dates, quarterly or half-yearly from day
\* 0, in either order, possibly with one entry that does not parse; as-of
\* dates on and just before every scheduled date and after the last.
PaymentGaps == {91, 183}

Schedule(n, gap, bad, reversed) ==
    [i \in 1..n |->
        LET j == IF reversed THEN n + 1 - i ELSE i
        IN  [k |-> IF j = bad THEN "bad" ELSE IF j % 2 = 0 THEN "us" ELSE "iso",
             d |-> (j - 1) * gap]]

CallAccumulatedCoupon ==
    /\ call.fn = "none"
    /\ \E n \in 1..MaxDates, gap \in PaymentGaps, bad \in 0..MaxDates,
          reversed \in BOOLEAN, notional \in {0, 5}, pct \in {0, 2} :
       \E as_of \in {k * gap - e : k \in 0..n, e \in {0, 1}} :
        LET dates == Schedule(n, gap, bad, reversed)
        IN  /\ call' = [fn |-> "calculate_accumulated_coupon",
                        notional_amount |-> notional, coupon_pct |-> pct,
                        payment_dates |-> dates, as_of_date |-> as_of,
                        expected |-> calculate_expected_coupon(notional, pct,
                                                               dates),
                        result |-> calculate_accumulated_coupon(notional, pct,
                                                                dates, as_of)]
            /\ UNCHANGED <<notes, underlyings, today, last_run, evaluated,
                           ever_converted, pool>>

SpecCoupon == Idle /\ [][CallAccumulatedCoupon]_vars

\* -------------------------------------------------------- check_ki_barrier
CallKnockIn ==
    /\ call.fn = "none"
    /\ \E type \in FcnFamily, kiType \in KiTypes, status \in Statuses,
          fin \in FinalDateValues, day \in Days,
          len \in 1..MaxUnd :
       \E f \in UnderlyingLists(len, {MaxPrice}, {MaxPrice}, {0}, Prices, Prices) :
        LET note == Row(type, kiType, [k |-> "iso", d |-> 0], fin, status, 0, 0)
            us == WithTickers(f)
        IN  Called("check_ki_barrier", note, us, day,
                   check_ki_barrier(note, us, day))

SpecKnockIn == Idle /\ [][CallKnockIn]_vars

\* The same call for the products with their own knock-in logic.
CallKnockInProducts ==
    /\ call.fn = "none"
    /\ \E type \in {"Phoenix", "BEN"}, kiType \in KiTypes, status \in Statuses,
          fin \in FinalDateValues, day \in Days,
          len \in 1..MaxUnd :
       \E f \in UnderlyingLists(len, 1..MaxPrice, {MaxPrice}, {0}, Prices, Prices) :
        LET note == Row(type, kiType, [k |-> "iso", d |-> 0], fin, status, 0, 0)
            us == WithTickers(f)
        IN  Called("check_ki_barrier", note, us, day,
                   check_ki_barrier(note, us, day))

SpecKnockInProducts == Idle /\ [][CallKnockInProducts]_vars

\* ======================================================== the application
\* Terms of the underlyings of a note of each product: key levels 1 < 2 < 3.
\* The second underlying carries no knock-out barrier (the field is optional).
Terms(type) ==
    IF type = "Phoenix" THEN [spot |-> 3, strike |-> 2, ko |-> 3, ki |-> 1]
    ELSE IF type = "BEN" THEN [spot |-> 3, strike |-> 2, ko |-> 3, ki |-> 2]
    ELSE [spot |-> 2, strike |-> 2, ko |-> 3, ki |-> 1]

\* insert_structured_note: status 'Not Observed Yet', no event, and (from
\* the entry form) no close price yet.
NewNote(type, kiType, kind) ==
    Row(type, kiType, [k |-> kind, d |-> 1], [k |-> kind, d |-> FinalDay],
        "Not Observed Yet", 0, 0)

NewUnderlyings(type) ==
    LET t == Terms(type)
    IN  <<Underlying("A", t.spot, t.strike, t.ko, t.ki, 0),
          Underlying("B", t.spot, t.strike, 0, t.ki, 0)>>

\* The dates come back as strings from SQLite and as date objects from
\* PostgreSQL; one database serves all notes.
Init ==
    /\ \E kind \in {"iso", "date"} :
       \E types \in [NoteIds -> {"FCN", "Phoenix", "BEN"}],
          kiTypes \in [NoteIds -> KiTypes] :
            /\ notes = [n \in NoteIds |-> NewNote(types[n], kiTypes[n], kind)]
            /\ underlyings = [n \in NoteIds |-> NewUnderlyings(types[n])]
    /\ today = 0
    /\ last_run = NoRun
    /\ evaluated = NothingEvaluated
    /\ call = NoCall
    /\ ever_converted = {}
    /\ pool = NoPool

\* The notes a pass left marked Converted.
ConvertedIn(rows) == {n \in DOMAIN rows : rows[n].current_status = "Converted"}

Orders(ids) == {o \in [ids -> ids] : \A i, j \in ids : o[i] = o[j] => i = j}

RunOf(op, pass, updated) ==
    [op |-> op, ko_count |-> pass.ko_count, ki_count |-> pass.ki_count,
     converted_count |-> pass.converted_count, details |-> pass.details,
     updated_count |-> updated, raised |-> pass.raised]

\* check_all_barriers(conn)
CheckAllBarriers ==
    \E order \in Orders(DOMAIN notes), fails \in SUBSET DOMAIN notes,
       sticky \in BOOLEAN :
        LET pass == check_all_barriers(notes, underlyings, today, order, fails,
                                       sticky)
        IN  /\ notes' = pass.notes
            /\ evaluated' = pass.evaluated
            /\ last_run' = RunOf("check_all_barriers", pass, 0)
            /\ ever_converted' = ever_converted \cup ConvertedIn(pass.notes)
            /\ UNCHANGED <<underlyings, today, call, pool>>

\* update_all_statuses(conn)
UpdateAllStatuses ==
    /\ notes' = update_all_statuses(notes, today, 1)
    /\ evaluated' = [n \in DOMAIN notes |-> <<>>]
    /\ last_run' = [NoRun EXCEPT !.op = "update_all_statuses",
                                 !.updated_count = Len(notes)]
    /\ UNCHANGED <<underlyings, today, call, ever_converted, pool>>

\* The "Refresh All" button: check_all_barriers, then update_all_statuses;
\* an exception escaping the first step skips the second, and on a
\* connection left unusable the first SELECT of the second step raises.
RefreshAll ==
    \E order \in Orders(DOMAIN notes), fails \in SUBSET DOMAIN notes,
       sticky \in BOOLEAN :
        LET pass == check_all_barriers(notes, underlyings, today, order, fails,
                                       sticky)
            stopped == pass.raised \/ pass.broken
        IN  /\ notes' = IF stopped THEN pass.notes
                        ELSE update_all_statuses(pass.notes, today, 1)
            /\ evaluated' = pass.evaluated
            /\ last_run' = [RunOf("refresh_all", pass,
                                  IF stopped THEN 0 ELSE Len(notes))
                               EXCEPT !.raised = stopped]
            /\ ever_converted' = ever_converted \cup ConvertedIn(pass.notes)
            /\ UNCHANGED <<underlyings, today, call, pool>>

\* The "Update Prices" button: every ticker whose fetch returned a price
\* (fetched[t] # 0) is written to all rows of that ticker.
UpdateAllPrices ==
    \E fetched \in [{"A", "B"} -> 0..MaxClose] :
        /\ underlyings' =
             [n \in NoteIds |->
                [i \in 1..Len(underlyings[n]) |->
                    IF fetched[underlyings[n][i].underlying_ticker] # 0
                    THEN [underlyings[n][i] EXCEPT !.last_close_price =
                             fetched[underlyings[n][i].underlying_ticker]]
                    ELSE underlyings[n][i]]]
        /\ evaluated' = NothingEvaluated
        /\ last_run' = NoRun
        /\ UNCHANGED <<notes, today, call, ever_converted, pool>>

\* The "Edit Note" form: the user may change ki_type and move the final
\* valuation date; the other fields are submitted as they were loaded, and
\* each underlying is re-inserted with its terms and its existing close.
EditNote ==
    \E n \in NoteIds, kiType \in KiTypes, fin \in {FinalDay, MaxDay} :
        LET note_data ==
                [type_of_structured_product |->
                     notes[n].type_of_structured_product,
                 observation_start_date |-> notes[n].observation_start_date.d,
                 final_valuation_date |-> fin,
                 ki_type |-> kiType]
        IN  /\ notes' = [notes EXCEPT ![n] = update_structured_note(@, note_data)]
            /\ underlyings' = underlyings
            /\ evaluated' = NothingEvaluated
            /\ last_run' = [NoRun EXCEPT !.op = "update_structured_note"]
            /\ UNCHANGED <<today, call, ever_converted, pool>>

\* Midnight.
NextDay ==
    /\ today < MaxDay
    /\ today' = today + 1
    /\ evaluated' = NothingEvaluated
    /\ last_run' = NoRun
    /\ UNCHANGED <<notes, underlyings, call, ever_converted, pool>>

Next ==
    \/ CheckAllBarriers
    \/ UpdateAllStatuses
    \/ RefreshAll
    \/ UpdateAllPrices
    \/ EditNote
    \/ NextDay

Spec == Init /\ [][Next]_vars

\* ------------------------------------------------------ a batch of notes
\* Several notes, just entered, after one price update, before the observation
\* start or on the final valuation date; the passes run over them.  The spot price of a
\* second underlying is optional in the entry form: with_spot says whether
\* it was filled in.
BatchIds == 1..(NumNotes + 1)

InitBatch ==
    /\ \E types \in [BatchIds -> {"FCN", "Phoenix"}],
          fetched \in [{"A", "B"} -> 0..MaxClose], with_spot \in BOOLEAN :
            /\ notes = [n \in BatchIds |-> NewNote(types[n], "Daily", "iso")]
            /\ underlyings =
                 [n \in BatchIds |->
                    [i \in 1..2 |->
                        LET u == NewUnderlyings(types[n])[i]
                        IN  [u EXCEPT
                               !.last_close_price = fetched[u.underlying_ticker],
                               !.spot_price = IF i = 2 /\ ~with_spot
                                              THEN 0 ELSE @]]]
    /\ today \in {0, FinalDay}
    /\ last_run = NoRun
    /\ evaluated = [n \in BatchIds |-> <<>>]
    /\ call = NoCall
    /\ ever_converted = {}
    /\ pool = NoPool

NextBatch ==
    \/ CheckAllBarriers
    \/ RefreshAll

SpecBatch == InitBatch /\ [][NextBatch]_vars


\* ======================================================= update_all_prices
\* update_all_prices submits one fetch per distinct ticker to a
\* ThreadPoolExecutor(max_workers=5) and handles the results in the calling
\* thread in the order as_completed yields them. Which queued fetch a free
\* worker takes next follows the row order of the SELECT, which the
\* database does not fix, so any queued fetch may start.

\* SELECT DISTINCT underlying_ticker ... WHERE underlying_ticker IS NOT NULL
\* AND underlying_ticker != ''
DistinctTickers(unds) ==
    UNION {{unds[n][i].underlying_ticker : i \in 1..Len(unds[n])} :
              n \in DOMAIN unds} \ {""}

\* UPDATE note_underlyings SET last_close_price = price
\* WHERE underlying_ticker = ticker
WritePrice(unds, ticker, price) ==
    [n \in DOMAIN unds |->
        [i \in 1..Len(unds[n]) |->
            IF unds[n][i].underlying_ticker = ticker
            THEN [unds[n][i] EXCEPT !.last_close_price = price]
            ELSE unds[n][i]]]

RowCount(unds, ticker) ==
    Cardinality(UNION {{<<n, i>> : i \in {j \in 1..Len(unds[n]) :
                                    unds[n][j].underlying_ticker = ticker}} :
                          n \in DOMAIN unds})

\* The body of the as_completed loop for one result: price is 0 when the
\* fetch returned None; db_fails when the UPDATE raises.
HandleResult_writing_none(unds, p, ticker, price, db_fails) ==
    LET done == [p EXCEPT !.fut[ticker] = "handled",
                          !.handled[ticker] = @ + 1,
                          !.completed = @ + 1]
    IN  IF ~db_fails
        THEN [underlyings |-> WritePrice(unds, ticker, price),
              pool |-> [done EXCEPT !.updated_count = @ + RowCount(unds, ticker)]]
        ELSE [underlyings |-> unds,
              pool |-> [done EXCEPT !.error_count = @ + 1]]

HandleResult(unds, p, ticker, price, db_fails) ==
    LET done == [p EXCEPT !.fut[ticker] = "handled",
                          !.handled[ticker] = @ + 1,
                          !.completed = @ + 1]
    IN  IF price # 0
        THEN IF ~db_fails
             THEN [underlyings |-> WritePrice(unds, ticker, price),
                   pool |-> [done EXCEPT !.updated_count =
                                             @ + RowCount(unds, ticker)]]
             ELSE [underlyings |-> unds,
                   pool |-> [done EXCEPT !.error_count = @ + 1]]
        ELSE [underlyings |-> unds,
              pool |-> [done EXCEPT !.error_count = @ + 1,
                                    !.failed_tickers[ticker] = @ + 1]]

\* Two notes of four rows: six distinct tickers, ticker A in both notes,
\* one row without a ticker; every row holds an earlier close. Only the
\* first row carries a knock-out barrier.
PricedNotes ==
    LET t == Terms("FCN")
        r(ticker, ko) == Underlying(ticker, t.spot, t.strike, ko, t.ki, StoredClose)
    IN  <<<<r("A", t.ko), r("B", 0), r("C", 0), r("D", 0)>>,
          <<r("E", 0), r("F", 0), r("A", 0), r("", 0)>>>>

InitPrices ==
    /\ notes = [n \in 1..2 |-> NewNote("FCN", "Daily", "iso")]
    /\ underlyings = PricedNotes
    /\ today = 1
    /\ last_run = NoRun
    /\ evaluated = [n \in 1..2 |-> <<>>]
    /\ call = NoCall
    /\ ever_converted = {}
    /\ pool = NoPool

\* The SELECT and the executor.submit of every ticker.
SubmitFetches ==
    /\ pool.phase = "idle"
    /\ LET tickers == DistinctTickers(underlyings)
       IN  pool' = [phase |-> "running",
                    fut |-> [t \in tickers |-> "queued"],
                    price |-> [t \in tickers |-> 0],
                    handled |-> [t \in tickers |-> 0],
                    failed_tickers |-> [t \in tickers |-> 0],
                    completed |-> 0, updated_count |-> 0, error_count |-> 0]
    /\ UNCHANGED <<notes, underlyings, today, last_run, evaluated, call,
                   ever_converted>>

\* A free worker thread takes a queued fetch.
WorkerStarts ==
    /\ pool.phase = "running"
    /\ Cardinality({t \in DOMAIN pool.fut : pool.fut[t] = "running"})
          < MaxWorkers
    /\ \E t \in DOMAIN pool.fut :
          /\ pool.fut[t] = "queued"
          /\ pool' = [pool EXCEPT !.fut[t] = "running"]
    /\ UNCHANGED <<notes, underlyings, today, last_run, evaluated, call,
                   ever_converted>>

\* What Yahoo Finance may answer for a ticker: a price, or nothing (0).
\* A and B are quoted or not, C and D are quoted, E and F are unknown to it.
Quotes(ticker) ==
    IF ticker \in {"A", "B"} THEN {0, MaxClose}
    ELSE IF ticker \in {"C", "D"} THEN {MaxClose}
    ELSE {0}

\* fetch_single_ticker_price returns in a worker: a price, or None (0).
WorkerFinishes ==
    /\ pool.phase = "running"
    /\ \E t \in DOMAIN pool.fut : \E price \in Quotes(t) :
          /\ pool.fut[t] = "running"
          /\ pool' = [pool EXCEPT !.fut[t] = "done", !.price[t] = price]
    /\ UNCHANGED <<notes, underlyings, today, last_run, evaluated, call,
                   ever_converted>>

\* as_completed yields a finished future and the loop body handles it.
HandleCompleted ==
    /\ pool.phase = "running"
    /\ \E t \in DOMAIN pool.fut, db_fails \in BOOLEAN :
          /\ pool.fut[t] = "done"
          /\ LET h == HandleResult(underlyings, pool, t, pool.price[t], db_fails)
             IN  /\ underlyings' = h.underlyings
                 /\ pool' = h.pool
    /\ UNCHANGED <<notes, today, last_run, evaluated, call, ever_converted>>

\* as_completed is exhausted: update_all_prices returns.
ReturnPrices ==
    /\ pool.phase = "running"
    /\ \A t \in DOMAIN pool.fut : pool.fut[t] = "handled"
    /\ pool' = [pool EXCEPT !.phase = "returned"]
    /\ UNCHANGED <<notes, underlyings, today, last_run, evaluated, call,
                   ever_converted>>

\* Another session may run the barrier pass at any moment.
NextPrices ==
    \/ SubmitFetches
    \/ WorkerStarts
    \/ WorkerFinishes
    \/ HandleCompleted
    \/ ReturnPrices
    \/ CheckAllBarriers

SpecPrices == InitPrices /\ [][NextPrices]_vars


\* ================================================================== claims
IsPass(run) == run.op \in {"check_all_barriers", "refresh_all"}

Counted(run, kind, n) ==
    \E i \in 1..Len(run.details) : run.details[i] = [kind |-> kind, id |-> n]

Parseable(v) == v.k \in {"iso", "isotime", "date"}

\* u is a worst performer of us against the reference field ref: no other
\* underlying has a lower last_close / ref ratio.
IsWorst(us, i, ref) ==
    \A j \in 1..Len(us) :
        us[i].last_close_price * us[j][ref] <= us[j].last_close_price * us[i][ref]

\* C1: once a note's persisted status is Converted, no later step
\* (check_all_barriers, update_all_statuses, Refresh All, on any date)
\* changes that status.
C1_ConvertedIsTerminal ==
    [][\A n \in NoteIds :
          notes[n].current_status = "Converted"
              => notes'[n].current_status = "Converted"]_vars

\* C2: once ko_event_occurred (ki_event_occurred) is set, no later pass
\* counts the note in ko_count (ki_count) again or overwrites its
\* ko_event_date (ki_event_date).
C2_TriggerFiresOnce ==
    [][\A n \in NoteIds :
          /\ notes[n].ko_event_occurred = 1
                => /\ ~(IsPass(last_run') /\ Counted(last_run', "KO", n))
                   /\ notes'[n].ko_event_date = notes[n].ko_event_date
          /\ notes[n].ki_event_occurred = 1
                => /\ ~(IsPass(last_run') /\ Counted(last_run', "KI", n))
                   /\ notes'[n].ki_event_date = notes[n].ki_event_date]_vars

\* C3: with parseable observation-start and final-valuation dates the
\* status is Not Observed Yet before the observation start, else Ended after
\* the final valuation, else Knocked Out if the KO flag is set, else Knocked
\* In if the KI flag is set, else Alive; and it is the same whatever the
\* persisted current_status is.
C3_Expected(obs, fin, koFlag, kiFlag, day) ==
    CASE day < obs -> "Not Observed Yet"
      [] day >= obs /\ day > fin -> "Ended"
      [] day >= obs /\ day <= fin /\ koFlag = 1 -> "Knocked Out"
      [] day >= obs /\ day <= fin /\ koFlag = 0 /\ kiFlag = 1 -> "Knocked In"
      [] day >= obs /\ day <= fin /\ koFlag = 0 /\ kiFlag = 0 -> "Alive"

C3_StatusIsFunctionOfDatesAndFlags ==
    (/\ call.fn = "calculate_note_status"
     /\ Parseable(call.note.observation_start_date)
     /\ Parseable(call.note.final_valuation_date))
    => /\ call.result = C3_Expected(call.note.observation_start_date.d,
                                    call.note.final_valuation_date.d,
                                    call.note.ko_event_occurred,
                                    call.note.ki_event_occurred, call.day)
       /\ \A s \in Statuses :
             calculate_note_status([call.note EXCEPT !.current_status = s],
                                   call.day) = call.result

C3_Witness ==
    /\ call.fn = "calculate_note_status"
    /\ call.note.observation_start_date = [k |-> "date", d |-> 1]
    /\ call.note.final_valuation_date = [k |-> "isotime", d |-> 2]
    /\ call.day = 2
    /\ call.note.ko_event_occurred = 1
    /\ call.note.ki_event_occurred = 1
    /\ call.note.current_status = "Converted"
    /\ call.result = "Knocked Out"

\* C4: within one pass each note is evaluated in the order conversion,
\* knock-out, knock-in and at most one transition is recorded for it: a
\* conversion ends the note's evaluation, a knock-out trigger ends it before
\* the knock-in check, and no pass sets both event flags of a note.
C4_OneTransitionPerNotePerPass ==
    [][IsPass(last_run') =>
        \A n \in NoteIds :
          /\ evaluated'[n] \in {<<>>, <<"conversion">>,
                                <<"conversion", "knock-out">>,
                                <<"conversion", "knock-out", "knock-in">>}
          /\ Cardinality({i \in 1..Len(last_run'.details) :
                              last_run'.details[i].id = n}) <= 1
          /\ check_conversion(notes[n], underlyings[n], today).triggered
                => evaluated'[n] = <<"conversion">>
          /\ (/\ "knock-out" \in {evaluated'[n][i] : i \in 1..Len(evaluated'[n])}
              /\ check_ko_barrier(notes[n], underlyings[n]).triggered)
                => evaluated'[n] = <<"conversion", "knock-out">>
          /\ ~(/\ <<notes'[n].ko_event_occurred, notes'[n].ko_event_date>>
                    # <<notes[n].ko_event_occurred, notes[n].ko_event_date>>
               /\ <<notes'[n].ki_event_occurred, notes'[n].ki_event_date>>
                    # <<notes[n].ki_event_occurred, notes[n].ki_event_date>>)]_vars

\* A pass in which the note's knock-out fired although one of its
\* underlyings was at its knock-in level.
C4_Witness ==
    /\ last_run.op = "check_all_barriers"
    /\ \E n \in NoteIds :
          /\ Counted(last_run, "KO", n)
          /\ evaluated[n] = <<"conversion", "knock-out">>
          /\ notes[n].ko_event_occurred = 1
          /\ notes[n].ki_event_occurred = 0
          /\ \E i \in 1..Len(underlyings[n]) :
                /\ underlyings[n][i].last_close_price # 0
                /\ underlyings[n][i].last_close_price
                      <= underlyings[n][i].ki_price


\* C5: check_conversion returns a trigger only when the persisted status is
\* Knocked In and the day is the final valuation date, for every product
\* type and every price combination.
C5_ConversionOnlyOnFinalDateWhenKnockedIn ==
    (call.fn = "check_conversion" /\ call.result.triggered)
    => /\ call.note.current_status = "Knocked In"
       /\ Parseable(call.note.final_valuation_date)
       /\ call.day = call.note.final_valuation_date.d

C5_Witness ==
    /\ call.fn = "check_conversion"
    /\ call.result.triggered
    /\ call.note.type_of_structured_product = "BEN"
    /\ Len(call.us) = 2

\* C6: for a Knocked In note on its final valuation date whose underlyings
\* all have prices, check_conversion triggers exactly when the worst
\* performing share closes strictly below its own strike; worst is by
\* last_close / strike for the FCN family and by last_close / spot for
\* Phoenix and BEN.  (Of several equally worst shares, one decides.)
AllPriced(us) ==
    \A i \in 1..Len(us) : /\ us[i].last_close_price # 0
                          /\ us[i].spot_price # 0
                          /\ us[i].strike_price # 0

C6_Reference(type) == IF type \in FcnFamily THEN "strike_price" ELSE "spot_price"

C9_EkiOnlyOnFinalDate ==
    (/\ call.fn = "check_ki_barrier"
     /\ call.note.type_of_structured_product \in FcnFamily
     /\ call.note.ki_type = "EKI"
     /\ call.result.triggered)
    => /\ Parseable(call.note.final_valuation_date)
       /\ call.day = call.note.final_valuation_date.d

\* C10: the Phoenix knock-out check is decided by the share that is worst
\* by last_close / spot_price: it triggers exactly when that share's
\* last_close >= its ko_price.  (Stated for fully populated underlyings; of
\* several equally worst shares, one decides.)
C10_PhoenixKnockOutByWorstAgainstSpot ==
    (/\ call.fn = "check_ko_barrier"
     /\ call.note.type_of_structured_product = "Phoenix"
     /\ call.note.current_status \in {"Alive", "Not Observed Yet"}
     /\ AllPriced(call.us)
     /\ \A i \in 1..Len(call.us) : call.us[i].ko_price # 0)
    => LET worst == {i \in 1..Len(call.us) : IsWorst(call.us, i, "spot_price")}
           above(i) == call.us[i].last_close_price >= call.us[i].ko_price
       IN  /\ call.result.triggered => \E i \in worst : above(i)
           /\ (\A i \in worst : above(i)) => call.result.triggered

\* C11: for a Phoenix note the knock-in check never triggers on a day other
\* than the final valuation date, whatever ki_type says, whatever the prices
\* and however the stored final valuation date is represented.
C11_PhoenixKnockInOnlyOnFinalDate ==
    (/\ call.fn = "check_ki_barrier"
     /\ call.note.type_of_structured_product = "Phoenix"
     /\ call.result.triggered)
    => /\ Parseable(call.note.final_valuation_date)
       /\ call.day = call.note.final_valuation_date.d

\* C12: a BEN note never gets the knock-out flag or the Knocked Out status,
\* whatever KO prices and close prices its underlyings carry.
C12_BenNeverKnockedOut ==
    \A n \in NoteIds :
        notes[n].type_of_structured_product = "BEN"
            => /\ notes[n].ko_event_occurred = 0
               /\ notes[n].current_status # "Knocked Out"

\* C13: the BEN knock-in check gives the same answer whatever ki_type, the
\* final valuation date and the day are (it is never gated to a date), and
\* it triggers only when some underlying with a price and a KI barrier has
\* last_close strictly below ki_price: a close equal to the KI price does
\* not trigger.
C13_BenKnockInDailyAndStrict ==
    (/\ call.fn = "check_ki_barrier"
     /\ call.note.type_of_structured_product = "BEN")
    => /\ ~call.result.raised
       /\ \A k \in KiTypes, f \in FinalDateValues, d \in Days :
             check_ki_barrier([call.note EXCEPT !.ki_type = k,
                                                !.final_valuation_date = f],
                              call.us, d) = call.result
       /\ call.result.triggered
             => \E i \in 1..Len(call.us) :
                   /\ call.us[i].last_close_price # 0
                   /\ call.us[i].last_close_price < call.us[i].ki_price
       /\ (/\ Observable(call.note)
            /\ \A i \in 1..Len(call.us) :
                  call.us[i].last_close_price >= call.us[i].ki_price)
             => ~call.result.triggered

\* A BEN note marked EKI, away from its final valuation date: one share
\* closes exactly at its KI price, the other below, and the check triggers.
C13_Witness ==
    /\ call.fn = "check_ki_barrier"
    /\ call.note.type_of_structured_product = "BEN"
    /\ call.note.ki_type = "EKI"
    /\ call.note.final_valuation_date = [k |-> "iso", d |-> FinalDay]
    /\ call.day # FinalDay
    /\ Len(call.us) = 2
    /\ call.us[1].ki_price = 1 /\ call.us[1].last_close_price = 1
    /\ call.us[2].ki_price = 2 /\ call.us[2].last_close_price = 1
    /\ call.result.triggered

\* C14: the BEN knock-in check is decided by the share that is worst by
\* last_close / spot_price: when that share is not strictly below its own
\* ki_price the check does not trigger, even if another share is below its
\* own.  (Stated for underlyings with every field populated; of several
\* equally worst shares, one decides.)
C14_BenKnockInByWorstShare ==
    (/\ call.fn = "check_ki_barrier"
     /\ call.note.type_of_structured_product = "BEN"
     /\ AllPriced(call.us)
     /\ \A i \in 1..Len(call.us) : call.us[i].ki_price # 0
     /\ call.result.triggered)
    => \E i \in 1..Len(call.us) :
          /\ IsWorst(call.us, i, "spot_price")
          /\ call.us[i].last_close_price < call.us[i].ki_price

\* C15: the knock-out evaluation applied to a Phoenix note compares the
\* worst performing share with the step-down barrier of the current period
\* (resolved from the day and the issue date): it triggers exactly when
\* check_phoenix_autocall does for that period.
C15_PhoenixKnockOutUsesStepDownBarrier ==
    (/\ call.fn = "check_ko_barrier"
     /\ call.note.type_of_structured_product = "Phoenix")
    => (call.result.triggered
          <=> check_phoenix_autocall(
                  call.note, call.us, call.ko_barriers,
                  calculate_current_payment_period(call.note.issue_date,
                                                   call.day)).triggered)

\* C16: incomplete data is never an error: check_conversion never raises,
\* whichever of last_close, spot and strike are missing, and when no
\* underlying has both a last_close and a strike it returns a non-trigger.
C16_IncompleteDataNeverRaises ==
    call.fn = "check_conversion"
    => /\ ~call.result.raised
       /\ (\A i \in 1..Len(call.us) : \/ call.us[i].last_close_price = 0
                                        \/ call.us[i].strike_price = 0)
             => ~call.result.triggered

\* C17: when the write of a triggered transition fails for a note during a
\* check_all_barriers pass, the pass is not aborted and every other note is still processed;
\* the failed note is counted in no counter, its row is unchanged, and it
\* would trigger again on the next pass with the same prices.
C17_WriteFailureIsIsolated ==
    [][\A n \in DOMAIN notes :
          (last_run'.op = "check_all_barriers" /\ Counted(last_run', "FAIL", n))
          => /\ ~last_run'.raised
             /\ \A m \in DOMAIN notes : evaluated'[m] # <<>>
             /\ ~\E k \in {"KO", "KI", "CONV"} : Counted(last_run', k, n)
             /\ notes'[n] = notes[n]
             /\ NoteOutcome(notes'[n], underlyings'[n], today', FALSE).event
                    \in {"KO", "KI", "CONV"}]_vars

C19_RerunLeavesFlaggedNotesAlone ==
    [][(IsPass(last_run) /\ last_run'.op = "check_all_barriers")
        => \A n \in DOMAIN notes :
              (notes[n].ko_event_occurred = 1 \/ notes[n].ki_event_occurred = 1)
              => /\ notes'[n] = notes[n]
                 /\ ~\E k \in {"KO", "KI", "CONV"} : Counted(last_run', k, n)]_vars

\* C20: once ko_event_occurred or ki_event_occurred is 1, no step
\* (check_all_barriers, update_all_statuses, Refresh All, an edit of the
\* note, a price update) sets it back to 0.
C20_EventFlagsMonotone ==
    [][\A n \in NoteIds :
          /\ notes[n].ko_event_occurred = 1 => notes'[n].ko_event_occurred = 1
          /\ notes[n].ki_event_occurred = 1 => notes'[n].ki_event_occurred = 1]_vars

\* A note with an event flag set has just been edited.
C20_Witness ==
    /\ last_run.op = "update_structured_note"
    /\ \E n \in NoteIds :
          /\ notes[n].ki_event_occurred = 1
          /\ notes[n].ki_type = "EKI"
          /\ notes[n].final_valuation_date.d = MaxDay

\* C21: update_all_statuses changes nothing on a note except
\* current_status: both event flags, both event dates, every other column
\* and all underlyings are as before.
C21_StatusEngineWritesOnlyStatus ==
    [][last_run'.op = "update_all_statuses"
        => /\ underlyings' = underlyings
           /\ \A n \in DOMAIN notes :
                 [notes'[n] EXCEPT !.current_status = notes[n].current_status]
                     = notes[n]]_vars

\* A status refresh has just moved a knocked-in note, event date recorded,
\* to Ended.
C21_Witness ==
    /\ last_run.op = "update_all_statuses"
    /\ \E n \in NoteIds :
          /\ notes[n].current_status = "Ended"
          /\ notes[n].ki_event_occurred = 1
          /\ notes[n].ki_event_date # NoDate
          /\ today > notes[n].final_valuation_date.d

C23_AccumulatedIsShareOfExpected ==
    call.fn = "calculate_accumulated_coupon"
    => LET dates == parse_coupon_payment_dates(call.payment_dates)
           paid == Cardinality({i \in 1..Len(dates) :
                                    dates[i] <= call.as_of_date})
           priced == call.notional_amount # 0 /\ call.coupon_pct # 0
           acc == call.result.amount
           share == [num |-> call.expected.num * paid,
                     den |-> call.expected.den * Len(dates)]
           diff == acc.num * share.den - share.num * acc.den
       IN  (priced /\ Len(dates) > 0)
           => /\ call.result.payments_made = paid
              /\ call.result.total_payments = Len(dates)
              /\ 100 * (IF diff < 0 THEN -diff ELSE diff) <= share.num * acc.den

\* C24: a pass treats the notes independently: with every write
\* succeeding, the rows it leaves and the counts it returns are the same
\* for every order in which the database hands it the notes.
C24_PassIndependentOfOrder ==
    \A o1, o2 \in Orders(DOMAIN notes) :
        LET p1 == check_all_barriers(notes, underlyings, today, o1, {}, FALSE)
            p2 == check_all_barriers(notes, underlyings, today, o2, {}, FALSE)
        IN  /\ p1.notes = p2.notes
            /\ p1.ko_count = p2.ko_count
            /\ p1.ki_count = p2.ki_count
            /\ p1.converted_count = p2.converted_count

\* C25: a Phoenix note that is Alive on its final valuation date, with
\* every underlying priced and its worst performing share closing at or
\* below its KI price and below its strike, is Converted after one Refresh
\* All (check_all_barriers followed by update_all_statuses) on that date in
\* which every write succeeds.
C25_PhoenixConvertsInOneCycle ==
    [][(/\ last_run'.op = "refresh_all"
        /\ ~last_run'.raised
        /\ \A n \in DOMAIN notes : ~Counted(last_run', "FAIL", n))
        => \A n \in DOMAIN notes :
              (/\ notes[n].type_of_structured_product = "Phoenix"
               /\ notes[n].current_status = "Alive"
               /\ today = notes[n].final_valuation_date.d
               /\ AllPriced(underlyings[n])
               /\ \A i \in 1..Len(underlyings[n]) :
                     IsWorst(underlyings[n], i, "spot_price")
                     => /\ underlyings[n][i].last_close_price
                              <= underlyings[n][i].ki_price
                        /\ underlyings[n][i].last_close_price
                              < underlyings[n][i].strike_price)
              => notes'[n].current_status = "Converted"]_vars

\* C26: no step records a knock-out or knock-in event dated after the
\* note's final valuation date: whenever a flag is set or an event date is
\* written, the date written is <= final_valuation_date.
C26_NoEventAfterFinalDate ==
    [][\A n \in DOMAIN notes :
          /\ (/\ notes'[n].ko_event_occurred = 1
               /\ <<notes'[n].ko_event_occurred, notes'[n].ko_event_date>>
                     # <<notes[n].ko_event_occurred, notes[n].ko_event_date>>)
                => notes'[n].ko_event_date <= notes'[n].final_valuation_date.d
          /\ (/\ notes'[n].ki_event_occurred = 1
               /\ <<notes'[n].ki_event_occurred, notes'[n].ki_event_date>>
                     # <<notes[n].ki_event_occurred, notes[n].ki_event_date>>)
                => notes'[n].ki_event_date <= notes'[n].final_valuation_date.d]_vars

\* C27: no note ever has both ko_event_occurred and ki_event_occurred set.
C27_NeverBothEvents ==
    \A n \in DOMAIN notes :
        ~(notes[n].ko_event_occurred = 1 /\ notes[n].ki_event_occurred = 1)

\* C28: a note with status Knocked Out has ko_event_occurred = 1, and a
\* note with status Knocked In or Converted has ki_event_occurred = 1.
C28_StatusAgreesWithFlags ==
    \A n \in DOMAIN notes :
        /\ notes[n].current_status = "Knocked Out"
              => notes[n].ko_event_occurred = 1
        /\ notes[n].current_status \in {"Knocked In", "Converted"}
              => notes[n].ki_event_occurred = 1

\* A status refresh has just kept a note with both events recorded at
\* Knocked Out.
C28_Witness ==
    /\ last_run.op = "update_all_statuses"
    /\ \E n \in NoteIds :
          /\ notes[n].current_status = "Knocked Out"
          /\ notes[n].ko_event_occurred = 1
          /\ notes[n].ki_event_occurred = 1

\* C29: the status that update_all_statuses persists for a note is always
\* one of Not Observed Yet, Alive, Knocked Out, Knocked In, Converted,
\* Ended, also for a note whose observation-start or final-valuation date
\* is missing or does not parse.
C29_StatusIsLifecycleState ==
    call.fn = "calculate_note_status"
    => update_all_statuses(<<call.note>>, call.day, 1)[1].current_status
          \in {"Not Observed Yet", "Alive", "Knocked Out",
               "Knocked In", "Converted", "Ended"}

\* C30: in update_all_prices, whatever the order in which the fetch workers
\* complete, the result of each distinct ticker is handled exactly once
\* (never twice, and once when the call returns); a stored last_close_price
\* changes only in the step that handles a ticker whose fetch returned a
\* price, to that price, so the price of a ticker whose fetch failed stays
\* as stored; and a barrier pass changes no stored price.
C30_HandledOnce ==
    pool.phase # "idle"
    => /\ DOMAIN pool.fut = DistinctTickers(underlyings)
       /\ \A t \in DOMAIN pool.fut :
             /\ pool.handled[t] <= 1
             /\ pool.handled[t] = 1 <=> pool.fut[t] = "handled"
             /\ pool.phase = "returned" => pool.handled[t] = 1
             /\ (pool.fut[t] = "handled" /\ pool.price[t] = 0)
                   => \A n \in DOMAIN underlyings :
                      \A i \in 1..Len(underlyings[n]) :
                         underlyings[n][i].underlying_ticker = t
                         => underlyings[n][i].last_close_price = StoredClose

C30_WritesOnlyFetchedPrices ==
    /\ \A n \in DOMAIN underlyings : \A i \in 1..Len(underlyings[n]) :
          underlyings'[n][i].last_close_price # underlyings[n][i].last_close_price
          => LET t == underlyings[n][i].underlying_ticker
             IN  /\ pool.phase = "running"
                 /\ t \in DOMAIN pool.fut
                 /\ pool.fut[t] = "done" /\ pool'.fut[t] = "handled"
                 /\ pool.price[t] # 0
                 /\ underlyings'[n][i].last_close_price = pool.price[t]
    /\ IsPass(last_run') /\ pool' = pool => underlyings' = underlyings

C30_PricesWrittenOncePerFetchedTicker ==
    []C30_HandledOnce /\ [][C30_WritesOnlyFetchedPrices]_vars

\* update_all_prices has returned: ticker A was
\* fetched and written to its rows in both notes, the fetch of B failed and
\* its row keeps the stored close, and a barrier pass ran meanwhile.
C30_Witness ==
    /\ pool.phase = "returned"
    /\ pool.price["A"] = MaxClose /\ pool.price["B"] = 0
    /\ underlyings[1][1].last_close_price = MaxClose
    /\ underlyings[2][3].last_close_price = MaxClose
    /\ underlyings[1][2].last_close_price = StoredClose
    /\ pool.updated_count >= 2
    /\ pool.failed_tickers["B"] = 1
    /\ last_run.op = "check_all_barriers"

====
